---- MODULE Spec2Model ----
(***************************************************************************)
(* The deferred-deletion scheduler of Code/main.py as a state machine.     *)
(*                                                                         *)
(* The program is one asyncio event loop.  Its coroutines are the tasks of *)
(* the model: main(), the on_ready handler, the deletion_cleanup_task loop *)
(* ("sweep") and one on_message handler per relayed message.  A task runs  *)
(* from one await that really suspends to the next without interruption;   *)
(* `cur` names the task that holds the event loop between two such points. *)
(* Each task has a control stack of labels: the head is where it is, the   *)
(* rest is where the coroutines it was called from continue.               *)
(*                                                                         *)
(* Python keeps the LAST definition of a name, so the functions modelled   *)
(* are the second save_deletion_to_db (line 137), and the                  *)
(* load_deletion_schedule_from_db, delete_message, delete_deletion_schedule*)
(* and delete_deletion_from_db of lines 312-376.                           *)
(***************************************************************************)
EXTENDS Integers, Sequences, FiniteSets, TLC

\* ------------------------------------------------------------- bounds
\* The clock runs 0..MaxTime.
MaxTime == 1
\* Entries the Store may hold when the process starts.
MaxInit == 1

\* ----------------------------------------------------- program constants
\* config.CHANNEL_ID: the public channel.
CHANNEL_ID == 1
\* timedelta(hours=24), in clock units.
DeleteAfter == 1

\* --------------------------------------------------------------- state
VARIABLES
  useDb,              \* USE_DATABASE
  file,               \* deletion_schedule.json
  table,              \* the deletion_schedule table
  pool,               \* db_pool: "none", "open", "closed"
  notification_sent,  \* the escalation latch
  now,                \* the UTC clock
  client,             \* the gateway connection: "init", "open", "closed", "failed"
  loopTask,           \* deletion_cleanup_task: "missing", "running", "done"
  stopNext,           \* the loop's stop-after-this-iteration flag
  stack,              \* each task's control stack
  cur,                \* the task holding the event loop, or "none"
  tick,               \* the locals of the sweep tick in progress
  m,                  \* the locals of each on_message handler
  nextId,             \* the id the next reposted message gets
  exited,             \* asyncio.run(main()) has returned
  \* history: what has been observed, read by the properties only
  attempts,           \* channel.send calls made by the two notify functions
  lateEscalate,       \* an escalation found the latch set while a send was in flight
  ctx,                \* each task's last Store operation and how it was handled
  dispatched,         \* the delete_message calls of the current tick
  retry,              \* keys whose delete failed with an HTTP error in the tick before
  expected,           \* file backend: keys put and not afterwards removed
  api,                \* the last Store operation called directly, and the Store before it
  swept,              \* the loop has begun a tick
  closeCalls          \* how often shutdown_bot has called db_pool.close()

vars == <<useDb, file, table, pool, notification_sent, now, client, loopTask,
          stopNext, stack, cur, tick, m, nextId, exited, attempts,
          lateEscalate, ctx, dispatched, retry, expected, api,
          swept, closeCalls>>

\* ------------------------------------------------------------ the tasks
\* One on_message handler: one relayed message in the process lifetime.
Handlers == {"h1"}
Tasks == {"main", "ready", "sweep"} \cup Handlers

\* Labels at which a task is suspended in an await (or not yet started);
\* at every other label it continues without yielding the event loop.
WaitLabels == {"main_start", "r_idle", "r_create_wait", "t_sleep", "x_wait",
               "m_idle", "m_del_wait", "m_repost_wait", "m_admin_wait",
               "pub_wait", "adm_wait", "sd_close", "sd_pool_wait", "db_wait"}

\* Labels inside send_error_notification / notify_runtime_error / shutdown_bot.
EscLabels == {"sen", "nre", "pub_wait", "adm_wait"}
SdLabels == {"sd", "sd_stop", "sd_pool_wait", "sd_close"}

\* ------------------------------------------------- keys and timestamps
\* str(n) for the ids of the model.
IdStr == <<"1", "2", "3", "4", "5", "6", "7", "8">>
Str(n) == IdStr[n]

\* int(s): the value, or ok = FALSE for the ValueError.  "01" is a string
\* int() accepts that str() never produces.
ParseInt(s) ==
  IF \E n \in DOMAIN IdStr : IdStr[n] = s
  THEN [ok |-> TRUE, n |-> CHOOSE n \in DOMAIN IdStr : IdStr[n] = s]
  ELSE IF s = "01" THEN [ok |-> TRUE, n |-> 1]
  ELSE [ok |-> FALSE, n |-> 0]

\* A key "T_C" is kept as the list of its '_'-separated parts.
\* f"{message_id}_{channel_id}"
MkKey(mid, cid) == <<Str(mid), Str(cid)>>

\* The unpacking with the two names exchanged.
ParseKeySwapped(k) ==
  IF Len(k) = 2 /\ ParseInt(k[1]).ok /\ ParseInt(k[2]).ok
  THEN [ok |-> TRUE, mid |-> ParseInt(k[2]).n, cid |-> ParseInt(k[1]).n]
  ELSE [ok |-> FALSE, mid |-> 0, cid |-> 0]

\* message_id, channel_id = map(int, key.split('_')): ValueError unless there
\* are exactly two parts and both are integers.
ParseKey(k) ==
  IF Len(k) = 2 /\ ParseInt(k[1]).ok /\ ParseInt(k[2]).ok
  THEN [ok |-> TRUE, mid |-> ParseInt(k[1]).n, cid |-> ParseInt(k[2]).n]
  ELSE [ok |-> FALSE, mid |-> 0, cid |-> 0]

\* A stored timestamp string: "aware" is what datetime.isoformat() gives for
\* a UTC-aware datetime ("...+00:00"), "naive" what it gives for the naive
\* datetime a DATETIME column returns, "bad" a string fromisoformat rejects.
IsoFormat(t) == [kind |-> "aware", t |-> t]
NaiveIsoFormat(t) == [kind |-> "naive", t |-> t]
BadIso == [kind |-> "bad", t |-> 0]

\* datetime.fromisoformat(s).replace(tzinfo=timezone.utc)
FromIso(v) == [ok |-> v.kind # "bad", t |-> v.t]

\* ------------------------------------------------ the schedule mapping
\* A schedule is a Python dict: a sequence of entries with distinct keys, in
\* insertion order.
Keys(d) == {d[i].key : i \in DOMAIN d}

HasKey(d, k) == k \in Keys(d)

ValueOf(d, k) == d[CHOOSE i \in DOMAIN d : d[i].key = k].val

\* schedule[key] = value
DictSet(d, k, v) ==
  IF HasKey(d, k)
  THEN [i \in DOMAIN d |-> IF d[i].key = k THEN [key |-> k, val |-> v] ELSE d[i]]
  ELSE Append(d, [key |-> k, val |-> v])

KeepNot(d, k) ==
  LET Other(e) == e.key # k IN SelectSeq(d, Other)

\* del schedule[key]
DictDel(d, k) == KeepNot(d, k)

\* ------------------------------------------------------ file backend
NoFile == [exists |-> FALSE, data |-> <<>>]

\* json.load of the file, {} when there is none.
FileLoad(f) == IF f.exists THEN f.data ELSE <<>>

\* json.dump of the whole mapping.
FileSave(d) == [exists |-> TRUE, data |-> d]

\* A put that starts from an empty mapping instead of the file's.
FilePutFresh(f, k, t) == FileSave(DictSet(<<>>, k, IsoFormat(t)))

\* save_deletion_schedule, file branch: read, set, rewrite.
FilePut(f, k, t) == FileSave(DictSet(FileLoad(f), k, IsoFormat(t)))

\* A removal that writes back the mapping the sweep loaded when its tick
\* began, less the key, instead of reading the file again.
FileRemoveFromSnapshot(f, k) ==
  [err |-> FALSE, f |-> FileSave(DictDel(tick.schedule, k))]

\* del schedule[key] with no membership test before it: a KeyError when the
\* key is not there.
FileRemoveUnguarded(f, k) ==
  IF HasKey(FileLoad(f), k)
  THEN [err |-> FALSE, f |-> FileSave(DictDel(FileLoad(f), k))]
  ELSE [err |-> TRUE, f |-> f]

\* delete_deletion_schedule, file branch: read; if the key is there, delete
\* it and rewrite; if not, the file is left as it is.  err is the KeyError
\* of a del without the membership test, which this code cannot raise.
FileRemove(f, k) ==
  IF HasKey(FileLoad(f), k)
  THEN [err |-> FALSE, f |-> FileSave(DictDel(FileLoad(f), k))]
  ELSE [err |-> FALSE, f |-> f]

\* -------------------------------------------------- relational backend
\* The table is a sequence of rows [mid, cid, dt], one per primary key.
RowIs(r, mid, cid) == r.mid = mid /\ r.cid = cid

\* INSERT ... ON DUPLICATE KEY UPDATE delete_time = VALUES(delete_time)
DbUpsert(tbl, mid, cid, t) ==
  IF \E i \in DOMAIN tbl : RowIs(tbl[i], mid, cid)
  THEN [i \in DOMAIN tbl |->
          IF RowIs(tbl[i], mid, cid) THEN [mid |-> mid, cid |-> cid, dt |-> t]
          ELSE tbl[i]]
  ELSE Append(tbl, [mid |-> mid, cid |-> cid, dt |-> t])

\* DELETE FROM deletion_schedule WHERE message_id = %s AND channel_id = %s
DbDelete(tbl, mid, cid) ==
  LET Other(r) == ~RowIs(r, mid, cid) IN SelectSeq(tbl, Other)

\* SELECT ... ; schedule[f"{row[0]}_{row[1]}"] = row[2].isoformat()
DbSelect(tbl) ==
  [i \in DOMAIN tbl |->
     [key |-> MkKey(tbl[i].mid, tbl[i].cid), val |-> NaiveIsoFormat(tbl[i].dt)]]

\* is_db_pool_ready(): db_pool is not None and not db_pool._closed.
\* The pool is "closing" from close() until wait_closed() has returned,
\* which is when the library sets _closed.
IsDbPoolReady(p) == p \in {"open", "closing"}

\* What a database operation can do: nothing when the pool is not ready (the
\* functions test is_db_pool_ready first), and otherwise succeed or raise.
\* An operation is one step: its await points change nothing another task
\* can see before the commit, but for the connection it holds (SpecPool).  A
\* pool that is closing hands out no connection: acquire() raises.
DbOutcomes(p) ==
  IF ~IsDbPoolReady(p) THEN {"notready"}
  ELSE IF p = "closing" THEN {"raised"}
  ELSE {"ok", "raised"}

\* The connections tasks hold while suspended in a query.
ConnsInUse ==
  Cardinality({t \in DOMAIN stack : \E i \in DOMAIN stack[t] : stack[t][i] = "db_wait"})

\* The Store's logical contents, whichever backend is configured.
StoreContents == IF useDb THEN DbSelect(table) ELSE FileLoad(file)

Top(t) == IF stack[t] = <<>> THEN "done" ELSE Head(stack[t])

\* Task t may take the step that starts at label l.
Runs(t, l) ==
  /\ ~exited
  /\ Top(t) = l
  /\ IF l \in WaitLabels THEN cur = "none" ELSE cur = t

\* Task t goes on with control stack s; it keeps the event loop unless the
\* head of s is a suspension.
Resume(t, s) ==
  /\ stack' = [stack EXCEPT ![t] = s]
  /\ cur' = IF s = <<>> \/ Head(s) \in WaitLabels THEN "none" ELSE t

NoCtx == [op |-> "none", res |-> "none", esc |-> FALSE, sd |-> FALSE,
          key |-> <<>>, due |-> 0]

NoTick == [now |-> 0, schedule |-> <<>>, idx |-> 1, loadRes |-> "none",
           aborted |-> FALSE]

NoMsg == [delete_time |-> 0, repost |-> 0]

NoApi == [op |-> "none", key |-> <<>>, due |-> 0, res |-> "none", before |-> <<>>]

\* ------------------------------------------------------ initial states
\* The Store a process starts with was written by earlier runs of the
\* program: reposts in the public channel, with message ids 2, 3, ... in the
\* order they were scheduled, each due now or at the end of the clock.
InitTimes == {0, MaxTime}
InitMid(i) == i + 1

\* The gateway gives a reposted message an id no earlier message has.
FirstRepostId == InitMid(MaxInit) + 1

\* Tables as save_deletion_to_db leaves them.
CleanTables ==
  UNION {[1..n -> [mid : {0}, cid : {CHANNEL_ID}, dt : InitTimes]] : n \in 0..MaxInit}

InitTables ==
  {[i \in DOMAIN tb |-> [tb[i] EXCEPT !.mid = InitMid(i)]] : tb \in CleanTables}

\* Files as save_deletion_schedule leaves them.
CleanDicts ==
  {[i \in DOMAIN tb |->
      [key |-> MkKey(tb[i].mid, tb[i].cid), val |-> IsoFormat(tb[i].dt)]] :
     tb \in InitTables}

CleanFiles == {NoFile} \cup {FileSave(d) : d \in CleanDicts}

InitRest ==
  /\ notification_sent = FALSE
  /\ now = 0
  /\ client = "init"
  /\ loopTask = "missing"
  /\ stopNext = FALSE
  /\ stack = [t \in Tasks |->
                IF t = "main" THEN <<"main_start">>
                ELSE IF t = "ready" THEN <<"r_idle">>
                ELSE IF t = "sweep" THEN <<>>
                ELSE <<"m_idle">>]
  /\ cur = "none"
  /\ tick = NoTick
  /\ m = [h \in Handlers |-> NoMsg]
  /\ nextId = FirstRepostId
  /\ exited = FALSE
  /\ attempts = [pub |-> 0, adm |-> 0, pubRaised |-> FALSE, admReached |-> FALSE]
  /\ lateEscalate = FALSE
  /\ ctx = [t \in Tasks |-> NoCtx]
  /\ dispatched = <<>>
  /\ retry = {}
  /\ expected = Keys(FileLoad(file))
  /\ api = NoApi
  /\ swept = FALSE
  /\ closeCalls = 0

Init ==
  /\ useDb \in BOOLEAN
  /\ IF useDb
     THEN file = NoFile /\ table \in InitTables
     ELSE file \in CleanFiles /\ table = <<>>
  /\ pool = "none"
  /\ InitRest

\* ----------------------------------------------------------- escalation
\* What the assignment stores when the function lacks its `global`
\* declaration: the module's latch keeps the value it had.
LatchLeftUnset == notification_sent

\* The value `notification_sent = True` stores in the global latch.
SenLatchValue == TRUE
NreLatchValue == TRUE

\* The body shared by send_error_notification and notify_runtime_error, which
\* differ in their texts only, for a caller that continues with control stack
\* `rest`: return if the latch is set; otherwise set it, and send to the
\* public channel if get_channel finds it (suspending in the send), else to
\* the admin channel if get_channel finds that.
Escalate(t, latchValue, rest) ==
  /\ IF notification_sent
     THEN /\ Resume(t, rest)
          /\ lateEscalate' =
               (lateEscalate \/ \E u \in Tasks : Top(u) \in {"pub_wait", "adm_wait"})
          /\ UNCHANGED <<notification_sent, attempts>>
     ELSE /\ notification_sent' = latchValue
          /\ UNCHANGED lateEscalate
          /\ \E pubOk, admOk \in BOOLEAN :
               IF pubOk
               THEN /\ attempts' = [attempts EXCEPT !.pub = @ + 1]
                    /\ Resume(t, <<"pub_wait">> \o rest)
               ELSE IF admOk
               THEN /\ attempts' = [attempts EXCEPT !.adm = @ + 1,
                                                    !.admReached = TRUE]
                    /\ Resume(t, <<"adm_wait">> \o rest)
               ELSE /\ attempts' = [attempts EXCEPT !.admReached = TRUE]
                    /\ Resume(t, rest)
  /\ UNCHANGED <<useDb, file, table, pool, now, client, loopTask, stopNext,
                 tick, m, nextId, exited, dispatched, retry,
                 expected, api, swept, closeCalls>>

\* send_error_notification, from its first line to its first suspension.
SendErrorNotification(t) ==
  /\ Runs(t, "sen")
  /\ ctx' = [ctx EXCEPT ![t].esc = (ctx[t].op # "none")]
  /\ Escalate(t, SenLatchValue, Tail(stack[t]))

\* notify_runtime_error, from its first line to its first suspension.
NotifyRuntimeError(t) ==
  /\ Runs(t, "nre")
  /\ ctx' = [ctx EXCEPT ![t].esc = (ctx[t].op # "none")]
  /\ Escalate(t, NreLatchValue, Tail(stack[t]))

\* The public send returns: the admin channel is looked up and sent to.  Or
\* it raises: the except clause logs, and the admin send is never reached.
PublicSendDone(t) ==
  LET rest == Tail(stack[t]) IN
  /\ Runs(t, "pub_wait")
  /\ \E ok, admOk \in BOOLEAN :
       IF ok /\ admOk
       THEN /\ attempts' = [attempts EXCEPT !.adm = @ + 1, !.admReached = TRUE]
            /\ Resume(t, <<"adm_wait">> \o rest)
       ELSE /\ attempts' = [attempts EXCEPT !.pubRaised = ~ok,
                                            !.admReached = ok]
            /\ Resume(t, rest)
  /\ UNCHANGED <<useDb, file, table, pool, notification_sent, now, client,
                 loopTask, stopNext, tick, m, nextId, exited,
                 lateEscalate, ctx, dispatched, retry,
                 expected, api, swept, closeCalls>>

\* The admin send returns or raises; either way the function returns.
AdminSendDone(t) ==
  /\ Runs(t, "adm_wait")
  /\ Resume(t, Tail(stack[t]))
  /\ UNCHANGED <<useDb, file, table, pool, notification_sent, now, client,
                 loopTask, stopNext, tick, m, nextId, exited,
                 attempts, lateEscalate, ctx, dispatched,
                 retry, expected, api, swept, closeCalls>>

\* ------------------------------------------------------------- shutdown
\* shutdown_bot(reason), notify True: its first lines call
\* send_error_notification("shutdown", reason), after which it stops the task
\* and closes the pool.
ShutdownNotify(t) ==
  /\ Runs(t, "sd")
  /\ ctx' = [ctx EXCEPT ![t].sd = (ctx[t].op # "none")]
  /\ Escalate(t, SenLatchValue, <<"sd_stop">> \o Tail(stack[t]))

\* A shutdown_bot that skips the pool.
LeavePool(p) == p

\* if db_pool and not db_pool._closed: db_pool.close(); wait_closed().
ClosePool(p) == IF IsDbPoolReady(p) THEN "closed" ELSE p

\* shutdown_bot after the notification, which is where it starts with
\* notify=False: if deletion_cleanup_task.is_running(): stop(); if the pool is
\* there and not closed: close() and wait_closed(), which do not suspend
\* when no connection is in use, and otherwise suspend until the connections
\* are back; then await client.close().
ShutdownStop(t) ==
  /\ Runs(t, "sd_stop")
  /\ stopNext' = (stopNext \/ loopTask = "running")
  /\ closeCalls' = IF IsDbPoolReady(pool) THEN closeCalls + 1 ELSE closeCalls
  /\ IF IsDbPoolReady(pool) /\ ConnsInUse > 0
     THEN /\ pool' = "closing"
          /\ Resume(t, <<"sd_pool_wait", "sd_close">> \o Tail(stack[t]))
     ELSE /\ pool' = ClosePool(pool)
          /\ Resume(t, <<"sd_close">> \o Tail(stack[t]))
  /\ UNCHANGED <<useDb, file, table, notification_sent, now, client, loopTask,
                 tick, m, nextId, exited, attempts,
                 lateEscalate, ctx, dispatched, retry,
                 expected, api, swept>>

\* wait_closed() returns once no connection is in use, and the pool is
\* closed.
PoolWaitDone(t) ==
  /\ Runs(t, "sd_pool_wait")
  /\ ConnsInUse = 0
  /\ pool' = "closed"
  /\ Resume(t, Tail(stack[t]))
  /\ UNCHANGED <<useDb, file, table, notification_sent, now, client, loopTask,
                 stopNext, tick, m, nextId, exited, attempts,
                 lateEscalate, ctx, dispatched, retry,
                 expected, api, swept, closeCalls>>

\* client.close() returns; shutdown_bot returns to its caller.
ShutdownClientClosed(t) ==
  /\ Runs(t, "sd_close")
  /\ client' = "closed"
  /\ Resume(t, Tail(stack[t]))
  /\ UNCHANGED <<useDb, file, table, pool, notification_sent, now, loopTask,
                 stopNext, tick, m, nextId, exited, attempts,
                 lateEscalate, ctx, dispatched, retry,
                 expected, api, swept, closeCalls>>

\* ----------------------------------------------------------------- main
\* client.start(TOKEN) raises RuntimeError before the gateway is connected:
\* send_error_notification("Bot startup"), then the finally clause.
MainStartupError ==
  /\ Runs("main", "main_start")
  /\ client = "init"
  /\ client' = "failed"
  /\ Resume("main", <<"sen", "sd_stop", "main_exit">>)
  /\ UNCHANGED <<useDb, file, table, pool, notification_sent, now, loopTask,
                 stopNext, tick, m, nextId, exited, attempts,
                 lateEscalate, ctx, dispatched, retry,
                 expected, api, swept, closeCalls>>

\* client.start returns because the client was closed, or the operator
\* interrupts the process: the finally clause runs
\* shutdown_bot(..., notify=False).
MainFinally ==
  /\ Runs("main", "main_start")
  /\ Resume("main", <<"sd_stop", "main_exit">>)
  /\ UNCHANGED <<useDb, file, table, pool, notification_sent, now, client,
                 loopTask, stopNext, tick, m, nextId, exited,
                 attempts, lateEscalate, ctx, dispatched,
                 retry, expected, api, swept, closeCalls>>

\* main() returns and asyncio.run ends the process: nothing runs any more.
MainExit ==
  /\ Runs("main", "main_exit")
  /\ exited' = TRUE
  /\ Resume("main", <<>>)
  /\ UNCHANGED <<useDb, file, table, pool, notification_sent, now, client,
                 loopTask, stopNext, tick, m, nextId,
                 attempts, lateEscalate, ctx, dispatched,
                 retry, expected, api, swept, closeCalls>>

\* ------------------------------------------------------------- on_ready
\* The gateway is connected and on_ready runs: init_db_pool() awaits
\* create_pool when USE_DATABASE, and does nothing otherwise.
OnReady ==
  /\ Runs("ready", "r_idle")
  /\ client = "init"
  /\ Top("main") = "main_start"
  /\ client' = "open"
  /\ Resume("ready", IF useDb THEN <<"r_create_wait">> ELSE <<"r_start">>)
  /\ UNCHANGED <<useDb, file, table, pool, notification_sent, now, loopTask,
                 stopNext, tick, m, nextId, exited, attempts,
                 lateEscalate, ctx, dispatched, retry,
                 expected, api, swept, closeCalls>>

\* init_db_pool: create_pool and CREATE TABLE IF NOT EXISTS succeed; or
\* create_pool raises OperationalError (db_pool stays None); or the pool is
\* created and the CREATE TABLE raises it.  The except clause calls
\* send_error_notification and shutdown_bot, and returns to on_ready.
InitDbPoolDone ==
  /\ Runs("ready", "r_create_wait")
  /\ \E o \in {"ok", "create_failed", "ensure_failed"} :
       /\ pool' = IF o = "create_failed" THEN pool ELSE "open"
       /\ Resume("ready", IF o = "ok" THEN <<"r_start">>
                          ELSE <<"sen", "sd", "r_start">>)
  /\ UNCHANGED <<useDb, file, table, notification_sent, now, client, loopTask,
                 stopNext, tick, m, nextId, exited, attempts,
                 lateEscalate, ctx, dispatched, retry,
                 expected, api, swept, closeCalls>>

\* deletion_cleanup_task.start(): the loop task is created; its first
\* iteration is due at once.
StartCleanupTask ==
  /\ Runs("ready", "r_start")
  /\ loopTask # "running"
  /\ loopTask' = "running"
  /\ stopNext' = FALSE
  /\ stack' = [stack EXCEPT !["ready"] = <<>>, !["sweep"] = <<"t_sleep">>]
  /\ cur' = "none"
  /\ UNCHANGED <<useDb, file, table, pool, notification_sent, now, client,
                 tick, m, nextId, exited, attempts,
                 lateEscalate, ctx, dispatched, retry,
                 expected, api, swept, closeCalls>>

\* ------------------------------------------------------------ the clock
\* datetime.now(timezone.utc): any time from the last one read on.
ReadClock(t) == t \in now..MaxTime /\ now' = t

\* ------------------------------------------------------------ the sweep
\* delete_time <= now
IsDue(dt, n) == dt <= n

\* The outcomes of fetch_message + message.delete(): it returns, or raises
\* discord.NotFound, discord.Forbidden or another discord.HTTPException.
ExecOutcomes == {"success", "not_found", "forbidden", "http_error"}

\* A delete_message that drops the entry on every answer of the gateway but
\* not-found and forbidden.
RemovesOnAnyAnswer(o) == o \in {"success", "http_error"}

\* A delete_message that also drops the entry of a message that is gone.
RemovesOnNotFound(o) == o \in {"success", "not_found"}

\* delete_message calls delete_deletion_schedule on the line after
\* message.delete(), inside the try: only when the delete returned.
RemovesOn(o) == o = "success"

\* A delete_message without except clauses.
CaughtNone(o) == FALSE

\* The except clauses of delete_message: discord.NotFound and
\* discord.Forbidden in the inner try, discord.HTTPException in the outer
\* one; each of them only logs.
Caught(o) == o \in {"not_found", "forbidden", "http_error"}

\* The exception of the gateway leaves delete_message and reaches the except
\* clause of deletion_cleanup_task.
Escapes(o) == o # "success" /\ ~Caught(o)

\* What load and put of the configured backend can do.
StoreOutcomes == IF useDb THEN DbOutcomes(pool) ELSE {"ok"}

\* What delete_deletion_schedule(key) can do.
RemoveOutcomes(key) ==
  IF useDb THEN DbOutcomes(pool)
  ELSE IF FileRemove(file, key).err THEN {"keyerror"} ELSE {"ok"}

\* The Store after save_deletion_schedule(key, due) with outcome res: the
\* database branch parses the key and upserts the row.
StorePut(key, due, res) ==
  LET pk == ParseKey(key) IN
  /\ file' = IF res = "ok" /\ ~useDb THEN FilePut(file, key, due) ELSE file
  /\ table' = IF res = "ok" /\ useDb THEN DbUpsert(table, pk.mid, pk.cid, due)
              ELSE table

\* The Store after delete_deletion_schedule(key) with outcome res: the
\* database branch parses the key and deletes the row.
StoreRemove(key, res) ==
  LET pk == ParseKey(key) IN
  /\ file' = IF res = "ok" /\ ~useDb THEN FileRemove(file, key).f ELSE file
  /\ table' = IF res = "ok" /\ useDb THEN DbDelete(table, pk.mid, pk.cid)
              ELSE table

\* A tick begins: now is read and load_deletion_schedule is awaited.  A
\* stop() requested while the loop slept does not prevent it in the releases
\* of discord.py that test the flag after the iteration only.  The
\* file branch reads the file.  The database branch returns {} when the pool
\* is not ready, the rows when the SELECT succeeds, and on an exception calls
\* send_error_notification and shutdown_bot and then returns {}.
TickStart ==
  /\ Runs("sweep", "t_sleep")
  /\ loopTask = "running"
  /\ \E res \in StoreOutcomes, t \in 0..MaxTime :
       /\ ReadClock(t)
       /\ tick' = [now |-> t,
                   schedule |-> IF res = "ok" THEN StoreContents ELSE <<>>,
                   idx |-> 1, loadRes |-> res, aborted |-> FALSE]
       /\ ctx' = [ctx EXCEPT !["sweep"] = [NoCtx EXCEPT !.op = "load", !.res = res]]
       /\ Resume("sweep", IF res = "raised" THEN <<"sen", "sd", "t_iter">>
                          ELSE <<"t_iter">>)
  /\ swept' = TRUE
  /\ UNCHANGED <<useDb, file, table, pool, notification_sent, client, loopTask,
                 stopNext, m, nextId, exited, attempts,
                 lateEscalate, dispatched, retry, expected,
                 api, closeCalls>>

\* A for loop that reads the Store as it is at each pass.
LiveEntries == StoreContents

\* for msg_info, delete_time_str in schedule.items(): the loop goes through
\* the mapping load_deletion_schedule returned when the tick began.
TickEntries == tick.schedule

\* A call of delete_message that is scheduled and not awaited: the loop goes
\* on at once.
DontAwaitExecutor == <<"t_iter">>

\* await delete_message(channel_id, message_id): the loop is suspended until
\* the call has returned.
AwaitExecutor == <<"x_wait">>

\* The for loop has no entry left, or the except clause of the task has run.
TickOver == tick.aborted \/ tick.idx > Len(TickEntries)

\* One pass of the for loop, up to the await of delete_message's fetch: the
\* loop has ended, or the except clause of the task has run, and the tick is
\* over (the loop then sleeps, or ends when stop() was requested); or the entry's time does not parse, or it is due and its key
\* does not parse (ValueError: the except clause of the task calls
\* send_error_notification and shutdown_bot, and the tick is over); or the
\* entry is not due; or it is due and delete_message is called, which returns
\* at once when get_channel finds no channel and otherwise suspends.
TickIter ==
  /\ Runs("sweep", "t_iter")
  /\ ctx' = [ctx EXCEPT !["sweep"] = NoCtx]
  /\ loopTask' = IF TickOver /\ stopNext THEN "done" ELSE loopTask
  /\ stopNext' = IF TickOver THEN FALSE ELSE stopNext
  /\ IF TickOver
     THEN /\ Resume("sweep", IF stopNext THEN <<>> ELSE <<"t_sleep">>)
          /\ tick' = NoTick
          /\ dispatched' = <<>>
          /\ retry' = {dispatched[i].key : i \in
                         {j \in DOMAIN dispatched : dispatched[j].outcome = "http_error"}}
     ELSE LET e == TickEntries[tick.idx]
              pt == FromIso(e.val)
              pk == ParseKey(e.key)
          IN
          IF ~pt.ok \/ (IsDue(pt.t, tick.now) /\ ~pk.ok)
          THEN /\ tick' = [tick EXCEPT !.aborted = TRUE]
               /\ Resume("sweep", <<"sen", "sd", "t_iter">>)
               /\ UNCHANGED <<dispatched, retry>>
          ELSE IF ~IsDue(pt.t, tick.now)
          THEN /\ tick' = [tick EXCEPT !.idx = @ + 1]
               /\ Resume("sweep", <<"t_iter">>)
               /\ UNCHANGED <<dispatched, retry>>
          ELSE \E chanOk \in BOOLEAN :
                 /\ UNCHANGED retry
                 /\ dispatched' = Append(dispatched,
                      [key |-> e.key, mid |-> pk.mid, cid |-> pk.cid,
                       outcome |-> IF chanOk THEN "pending" ELSE "no_channel",
                       rem |-> "none"])
                 /\ IF chanOk
                    THEN /\ Resume("sweep", AwaitExecutor)
                         /\ UNCHANGED tick
                    ELSE /\ Resume("sweep", <<"t_iter">>)
                         /\ tick' = [tick EXCEPT !.idx = @ + 1]
  /\ UNCHANGED <<useDb, file, table, pool, notification_sent, now, client, m,
                 nextId, exited, attempts, lateEscalate,
                 expected, api, swept, closeCalls>>

\* fetch_message + message.delete() finish.  When they returned,
\* delete_deletion_schedule(f"{message_id}_{channel_id}") runs: the file
\* branch rewrites the file; the database branch does nothing when the pool
\* is not ready, deletes the row, or on an exception calls
\* send_error_notification and shutdown_bot.  The except clauses of
\* delete_message only log; a KeyError would pass them and reach the except
\* clause of the task.
ExecDone ==
  LET d == dispatched[Len(dispatched)]
      key == MkKey(d.mid, d.cid)
  IN
  /\ Runs("sweep", "x_wait")
  /\ \E o \in ExecOutcomes :
       \E res \in (IF RemovesOn(o) THEN RemoveOutcomes(key) ELSE {"none"}) :
         /\ StoreRemove(key, res)
         /\ expected' = IF res = "ok" /\ ~useDb THEN expected \ {key} ELSE expected
         /\ ctx' = IF res = "none" THEN ctx
                   ELSE [ctx EXCEPT !["sweep"] =
                           [NoCtx EXCEPT !.op = "remove", !.res = res, !.key = key]]
         /\ dispatched' = [dispatched EXCEPT ![Len(dispatched)] =
                             [d EXCEPT !.outcome = o, !.rem = res]]
         /\ tick' = [tick EXCEPT !.idx = @ + 1,
                                 !.aborted = (res = "keyerror" \/ Escapes(o))]
         /\ Resume("sweep", IF res \in {"raised", "keyerror"} \/ Escapes(o)
                            THEN <<"sen", "sd", "t_iter">>
                            ELSE <<"t_iter">>)
  /\ UNCHANGED <<useDb, pool, notification_sent, now, client, loopTask,
                 stopNext, m, nextId, exited, attempts,
                 lateEscalate, retry, api, swept, closeCalls>>

\* The loop wakes from its sleep with stop() requested: it ends.
LoopExit ==
  /\ Runs("sweep", "t_sleep")
  /\ loopTask = "running"
  /\ stopNext
  /\ loopTask' = "done"
  /\ stopNext' = FALSE
  /\ Resume("sweep", <<>>)
  /\ UNCHANGED <<useDb, file, table, pool, notification_sent, now, client,
                 tick, m, nextId, exited, attempts,
                 lateEscalate, ctx, dispatched, retry,
                 expected, api, swept, closeCalls>>

\* ----------------------------------------------------------- on_message
\* A message arrives in the public channel: the handler builds its embeds
\* and awaits message.delete().
OnMessage(h) ==
  /\ Runs(h, "m_idle")
  /\ client = "open"
  /\ Resume(h, <<"m_del_wait">>)
  /\ UNCHANGED <<useDb, file, table, pool, notification_sent, now, client,
                 loopTask, stopNext, tick, m, nextId, exited,
                 attempts, lateEscalate, ctx, dispatched,
                 retry, expected, api, swept, closeCalls>>

\* message.delete() returns: delete_time = now + 24 h, and the repost is
\* sent.  Or it raises: the except clause calls send_error_notification and
\* shutdown_bot.
OriginalDeleteDone(h) ==
  /\ Runs(h, "m_del_wait")
  /\ \E ok \in BOOLEAN, t \in 0..MaxTime :
       IF ok
       THEN /\ ReadClock(t)
            /\ m' = [m EXCEPT ![h].delete_time = t + DeleteAfter]
            /\ Resume(h, <<"m_repost_wait">>)
       ELSE /\ t = 0
            /\ UNCHANGED <<m, now>>
            /\ Resume(h, <<"sen", "sd", "m_end">>)
  /\ UNCHANGED <<useDb, file, table, pool, notification_sent, client, loopTask,
                 stopNext, tick, nextId, exited, attempts,
                 lateEscalate, ctx, dispatched, retry,
                 expected, api, swept, closeCalls>>

\* save_deletion_schedule(f"{reposted.id}_{channel.id}", delete_time): the
\* file branch reads, sets and rewrites the file.  The database branch
\* (save_deletion_to_db) logs and returns when the pool is not ready, upserts
\* the row, or on an exception calls notify_runtime_error and returns.
SaveDeletionSchedule(h, id, due) ==
  LET key == MkKey(id, CHANNEL_ID) IN
  \E res \in StoreOutcomes :
    /\ StorePut(key, due, res)
    /\ expected' = IF res = "ok" /\ ~useDb THEN expected \cup {key} ELSE expected
    /\ ctx' = [ctx EXCEPT ![h] =
                 [NoCtx EXCEPT !.op = "put", !.res = res, !.key = key, !.due = due]]
    /\ Resume(h, IF res = "raised" THEN <<"nre", "m_end">> ELSE <<"m_end">>)

\* The repost is sent: the admin copy is sent if get_channel finds the admin
\* channel, else the schedule is saved at once.  Or the send raises.
RepostDone(h) ==
  /\ Runs(h, "m_repost_wait")
  /\ \E ok, modOk \in BOOLEAN :
       IF ~ok
       THEN /\ Resume(h, <<"sen", "sd", "m_end">>)
            /\ UNCHANGED <<m, nextId, file, table, expected, ctx>>
       ELSE /\ m' = [m EXCEPT ![h].repost = nextId]
            /\ nextId' = nextId + 1
            /\ IF modOk
               THEN /\ Resume(h, <<"m_admin_wait">>)
                    /\ UNCHANGED <<file, table, expected, ctx>>
               ELSE SaveDeletionSchedule(h, nextId, m[h].delete_time)
  /\ UNCHANGED <<useDb, pool, notification_sent, now, client, loopTask,
                 stopNext, tick, exited, attempts,
                 lateEscalate, dispatched, retry, api, swept,
                 closeCalls>>

\* The admin copy is sent and the schedule is saved; or the send raises.
AdminCopyDone(h) ==
  /\ Runs(h, "m_admin_wait")
  /\ \E ok \in BOOLEAN :
       IF ok
       THEN SaveDeletionSchedule(h, m[h].repost, m[h].delete_time)
       ELSE /\ Resume(h, <<"sen", "sd", "m_end">>)
            /\ UNCHANGED <<file, table, expected, ctx>>
  /\ UNCHANGED <<useDb, pool, notification_sent, now, client, loopTask,
                 stopNext, tick, m, nextId, exited, attempts,
                 lateEscalate, dispatched, retry, api, swept,
                 closeCalls>>

\* on_message returns.
HandlerEnd(h) ==
  /\ Runs(h, "m_end")
  /\ Resume(h, <<>>)
  /\ m' = [m EXCEPT ![h] = NoMsg]
  /\ ctx' = [ctx EXCEPT ![h] = NoCtx]
  /\ UNCHANGED <<useDb, file, table, pool, notification_sent, now, client,
                 loopTask, stopNext, tick, nextId, exited,
                 attempts, lateEscalate, dispatched, retry,
                 expected, api, swept, closeCalls>>

\* -------------------------------------------------------- specification
Next ==
  \/ MainStartupError
  \/ MainFinally
  \/ MainExit
  \/ OnReady
  \/ InitDbPoolDone
  \/ StartCleanupTask
  \/ TickStart
  \/ TickIter
  \/ ExecDone
  \/ LoopExit
  \/ \E h \in Handlers : OnMessage(h)
  \/ \E h \in Handlers : OriginalDeleteDone(h)
  \/ \E h \in Handlers : RepostDone(h)
  \/ \E h \in Handlers : AdminCopyDone(h)
  \/ \E h \in Handlers : HandlerEnd(h)
  \/ \E t \in Tasks : SendErrorNotification(t)
  \/ \E t \in Tasks : NotifyRuntimeError(t)
  \/ \E t \in Tasks : PublicSendDone(t)
  \/ \E t \in Tasks : AdminSendDone(t)
  \/ \E t \in Tasks : ShutdownNotify(t)
  \/ \E t \in Tasks : ShutdownStop(t)
  \/ \E t \in Tasks : ShutdownClientClosed(t)

Spec == Init /\ [][Next]_vars

\* --------------------------------------------- a Store that was edited
\* deletion_schedule.json is read back with json.load whatever it holds: an
\* entry can carry a time fromisoformat rejects, or a key that is not "T_C".
Shapes == {"due", "later", "bad_time", "bad_key"}

CorruptEntry(i, shape) ==
  [key |-> IF shape = "bad_key" THEN <<Str(InitMid(i))>>
           ELSE MkKey(InitMid(i), CHANNEL_ID),
   val |-> IF shape = "bad_time" THEN BadIso
           ELSE IF shape = "later" THEN IsoFormat(MaxTime)
           ELSE IsoFormat(0)]

CorruptDicts ==
  UNION {{[i \in 1..n |-> CorruptEntry(i, g[i])] :
            g \in {f \in [1..n -> Shapes] :
                     \E i \in 1..n : f[i] \in {"bad_time", "bad_key"}}} :
         n \in 1..MaxInit}

InitCorrupt ==
  /\ useDb \in BOOLEAN
  /\ IF useDb
     THEN file = NoFile /\ table \in InitTables
     ELSE file \in CleanFiles \cup {FileSave(d) : d \in CorruptDicts} /\ table = <<>>
  /\ pool = "none"
  /\ InitRest

\* The program started on any Store of Init, or on a file with at least one
\* malformed entry.
SpecCorrupt == InitCorrupt /\ [][Next]_vars

\* ------------------------------------------------ the Store on its own
\* The three Store functions called directly, one call at a time, on the
\* Stores of Init with the pool absent or open.
ApiIds == 1..(MaxInit + 1)
ApiKeys == {MkKey(mid, cid) : mid \in ApiIds, cid \in {CHANNEL_ID, CHANNEL_ID + 1}}
ApiMaxEntries == MaxInit + 1

InitStore ==
  /\ useDb \in BOOLEAN
  /\ IF useDb
     THEN file = NoFile /\ table \in InitTables /\ pool \in {"none", "open"}
     ELSE file \in CleanFiles /\ table = <<>> /\ pool = "none"
  /\ InitRest

\* save_deletion_schedule(k, t)
ApiPut(k, t) ==
  /\ HasKey(StoreContents, k) \/ Len(StoreContents) < ApiMaxEntries
  /\ \E res \in StoreOutcomes :
       /\ StorePut(k, t, res)
       /\ api' = [op |-> "put", key |-> k, due |-> t, res |-> res,
                 before |-> StoreContents]
  /\ UNCHANGED <<useDb, pool, notification_sent, now, client, loopTask,
                 stopNext, stack, cur, tick, m, nextId,
                 exited, attempts, lateEscalate, ctx,
                 dispatched, retry, expected, swept,
                 closeCalls>>

\* delete_deletion_schedule(k)
ApiRemove(k) ==
  /\ \E res \in RemoveOutcomes(k) :
       /\ StoreRemove(k, res)
       /\ api' = [op |-> "remove", key |-> k, due |-> 0, res |-> res,
                 before |-> StoreContents]
  /\ UNCHANGED <<useDb, pool, notification_sent, now, client, loopTask,
                 stopNext, stack, cur, tick, m, nextId,
                 exited, attempts, lateEscalate, ctx,
                 dispatched, retry, expected, swept,
                 closeCalls>>

\* load_deletion_schedule()
ApiLoad ==
  /\ \E res \in StoreOutcomes :
       api' = [op |-> "load", key |-> <<>>, due |-> 0, res |-> res,
               before |-> IF res = "ok" THEN StoreContents ELSE <<>>]
  /\ UNCHANGED <<useDb, file, table, pool, notification_sent, now, client,
                 loopTask, stopNext, stack, cur, tick, m,
                 nextId, exited, attempts, lateEscalate, ctx,
                 dispatched, retry, expected, swept,
                 closeCalls>>

NextStore ==
  \/ \E k \in ApiKeys, t \in 0..MaxTime : ApiPut(k, t)
  \/ \E k \in ApiKeys : ApiRemove(k)
  \/ ApiLoad

SpecStore == InitStore /\ [][NextStore]_vars

\* ------------------------------------- a query in flight at shutdown
\* The database backend after on_ready has created the pool and started the
\* loop.  A tick's load_deletion_schedule_from_db holds a connection of the
\* pool while it is suspended in its SELECT; what the tick does with the
\* rows is Spec's matter and is left out here.
InitPool ==
  /\ useDb = TRUE
  /\ file = NoFile
  /\ table = <<>>
  /\ pool = "open"
  /\ notification_sent = FALSE
  /\ now = 0
  /\ client = "open"
  /\ loopTask = "running"
  /\ stopNext = FALSE
  /\ stack = [t \in Tasks |->
                IF t = "main" THEN <<"main_start">>
                ELSE IF t = "ready" THEN <<>>
                ELSE IF t = "sweep" THEN <<"t_sleep">>
                ELSE <<"m_idle">>]
  /\ cur = "none"
  /\ tick = NoTick
  /\ m = [h \in Handlers |-> NoMsg]
  /\ nextId = FirstRepostId
  /\ exited = FALSE
  /\ attempts = [pub |-> 0, adm |-> 0, pubRaised |-> FALSE, admReached |-> FALSE]
  /\ lateEscalate = FALSE
  /\ ctx = [t \in Tasks |-> NoCtx]
  /\ dispatched = <<>>
  /\ retry = {}
  /\ expected = {}
  /\ api = NoApi
  /\ swept = FALSE
  /\ closeCalls = 0

\* async with db_pool.acquire() as conn: ... await cursor.execute(SELECT):
\* the tick has a connection and is suspended in the query.
DbLoadBegin ==
  /\ Runs("sweep", "t_sleep")
  /\ loopTask = "running"
  /\ pool = "open"
  /\ swept' = TRUE
  /\ Resume("sweep", <<"db_wait">>)
  /\ UNCHANGED <<useDb, file, table, pool, notification_sent, now, client,
                 loopTask, stopNext, tick, m, nextId, exited,
                 attempts, lateEscalate, ctx, dispatched,
                 retry, expected, api, closeCalls>>

\* The query returns or raises and the connection goes back to the pool.
DbLoadEnd ==
  /\ Runs("sweep", "db_wait")
  /\ Resume("sweep", <<"t_sleep">>)
  /\ UNCHANGED <<useDb, file, table, pool, notification_sent, now, client,
                 loopTask, stopNext, tick, m, nextId, exited,
                 attempts, lateEscalate, ctx, dispatched,
                 retry, expected, api, swept, closeCalls>>

NextPool ==
  \/ DbLoadBegin
  \/ DbLoadEnd
  \/ MainFinally
  \/ MainExit
  \/ \E h \in Handlers : OnMessage(h)
  \/ \E h \in Handlers : OriginalDeleteDone(h)
  \/ \E h \in Handlers : RepostDone(h)
  \/ \E h \in Handlers : AdminCopyDone(h)
  \/ \E h \in Handlers : HandlerEnd(h)
  \/ \E t \in Tasks : SendErrorNotification(t)
  \/ \E t \in Tasks : NotifyRuntimeError(t)
  \/ \E t \in Tasks : PublicSendDone(t)
  \/ \E t \in Tasks : AdminSendDone(t)
  \/ \E t \in Tasks : ShutdownNotify(t)
  \/ \E t \in Tasks : ShutdownStop(t)
  \/ \E t \in Tasks : PoolWaitDone(t)
  \/ \E t \in Tasks : ShutdownClientClosed(t)

SpecPool == InitPool /\ [][NextPool]_vars

\* =========================================================== properties
\* The keys delete_message was called for in the tick in progress.
DispatchedKeys == {dispatched[i].key : i \in DOMAIN dispatched}

\* The sweep is at the end of a tick that loaded the Store and ran through.
TickComplete ==
  /\ Top("sweep") = "t_iter"
  /\ tick.loadRes = "ok"
  /\ ~tick.aborted
  /\ tick.idx > Len(tick.schedule)

\* A task is back in its caller after the Store operation recorded in ctx.
Returned(t) == Top(t) \in {"m_end", "t_iter"}

\* ------------------------------------------------------------------ C1
\* C1: in one process lifetime at most one send to the public channel and at
\* most one send to the admin channel are made by send_error_notification
\* and notify_runtime_error together, also when an escalation is requested
\* while an earlier one is suspended in a send; the latch is set whenever a
\* send was made, and once set it is never reset.
SingleEscalation ==
  /\ [](/\ attempts.pub <= 1
        /\ attempts.adm <= 1
        /\ (attempts.pub + attempts.adm > 0 => notification_sent))
  /\ [][notification_sent => notification_sent']_vars

\* An escalation was requested while the first one was suspended in a send.
EscalationDuringSend == lateEscalate /\ attempts.pub = 1

\* ------------------------------------------------------------------ C2
\* C2: a due entry whose delete failed with an HTTP error other than
\* not-found and forbidden stays in the Store: it is there when the tick
\* ends, it is there until a later delete of it succeeds, every tick that
\* follows and loads the Store dispatches it again, and once its delete has
\* succeeded and the removal has completed it is absent.
TransientRetry ==
  /\ \A i \in DOMAIN dispatched :
       /\ dispatched[i].outcome = "http_error"
            => HasKey(StoreContents, dispatched[i].key)
       /\ dispatched[i].outcome = "success" /\ dispatched[i].rem = "ok"
            => ~HasKey(StoreContents, dispatched[i].key)
  /\ \A k \in retry :
       \/ HasKey(StoreContents, k)
       \/ \E i \in DOMAIN dispatched :
            dispatched[i].key = k /\ dispatched[i].outcome = "success"
  /\ TickComplete => retry \subseteq DispatchedKeys

\* An entry that failed with an HTTP error in one tick was dispatched in the
\* next, deleted, and is gone.
RetriedAndRemoved ==
  \E i \in DOMAIN dispatched :
    /\ dispatched[i].key \in retry
    /\ dispatched[i].outcome = "success"
    /\ dispatched[i].rem = "ok"
    /\ ~HasKey(StoreContents, dispatched[i].key)

\* ------------------------------------------------------------------ C3
\* C3: when delete_message finishes for a due entry with not-found,
\* forbidden or an unresolvable channel, the entry is removed from the
\* Store.
NonRetryableDropped ==
  \A i \in DOMAIN dispatched :
    dispatched[i].outcome \in {"not_found", "forbidden", "no_channel"}
      => ~HasKey(StoreContents, dispatched[i].key)

\* ------------------------------------------------------------------ C4
\* The entries of the snapshot the for loop has been through.
Processed ==
  SubSeq(tick.schedule, 1,
         IF Top("sweep") = "x_wait" THEN tick.idx ELSE tick.idx - 1)

EntryIsDue(e) == e.val.kind # "bad" /\ e.val.t <= tick.now

\* C4: in a sweep tick delete_message is called exactly once for every
\* entry "T_C" of the loaded snapshot whose time is at or before now, in
\* snapshot order, with message_id = T and channel_id = C, and for no other;
\* when the delete succeeded and the removal completed, the Store no longer
\* holds "T_C".
SweepDispatchesDue ==
  LET due == SelectSeq(Processed, EntryIsDue) IN
  /\ Len(dispatched) = Len(due)
  /\ \A i \in DOMAIN dispatched :
       /\ dispatched[i].key = due[i].key
       /\ due[i].key = <<Str(dispatched[i].mid), Str(dispatched[i].cid)>>
       /\ dispatched[i].outcome = "success" /\ dispatched[i].rem = "ok"
            => ~HasKey(StoreContents, due[i].key)

\* A tick ran through, called delete_message for a due entry, the delete
\* succeeded, and the entry is gone.
DueEntrySwept ==
  /\ TickComplete
  /\ \E i \in DOMAIN dispatched :
       /\ dispatched[i].outcome = "success"
       /\ dispatched[i].rem = "ok"
       /\ HasKey(tick.schedule, dispatched[i].key)
       /\ ~HasKey(StoreContents, dispatched[i].key)

\* ------------------------------------------------------------------ C5
\* C5: whenever put, load or remove on the database raised, shutdown_bot
\* has been called by the time the operation's caller goes on.
BackendFailureShutsDown ==
  \A t \in Tasks : ctx[t].res = "raised" /\ Returned(t) => ctx[t].sd

\* ------------------------------------------------------------------ C6
\* C6: when save_deletion_schedule has returned to on_message, the Store
\* holds the key with the given time.
AcknowledgedPutDurable ==
  \A h \in Handlers :
    Top(h) = "m_end" /\ ctx[h].op = "put"
      => /\ HasKey(StoreContents, ctx[h].key)
         /\ ValueOf(StoreContents, ctx[h].key).t = ctx[h].due

\* ------------------------------------------------------------------ C7
\* C7: when put, load or remove found the pool absent or closed, or raised,
\* an escalation has been raised by the time the operation's caller goes on.
UnavailabilityEscalated ==
  \A t \in Tasks :
    ctx[t].res \in {"notready", "raised"} /\ Returned(t) => notification_sent

\* ------------------------------------------------------------------ C8
WellFormed(e) == e.val.kind # "bad" /\ Len(e.key) = 2

\* C8: a tick whose snapshot holds an entry that does not parse still calls
\* delete_message for every other due entry of the snapshot, and the task's
\* except clause (escalation and shutdown) is not entered.
MalformedSkipped ==
  Top("sweep") = "t_iter" /\ (tick.aborted \/ tick.idx > Len(tick.schedule))
    => /\ ~tick.aborted
       /\ \A i \in DOMAIN tick.schedule :
            WellFormed(tick.schedule[i]) /\ EntryIsDue(tick.schedule[i])
              => tick.schedule[i].key \in DispatchedKeys

\* ------------------------------------------------------------------ C9
\* C9: on the file backend, under every interleaving of on_message handlers
\* and the sweep, the file holds exactly the keys that were put and not
\* afterwards removed.
NoLostUpdates == ~useDb => Keys(FileLoad(file)) = expected

\* The sweep removed an entry from a file to which a handler had added a key
\* after the sweep loaded its snapshot.
PutBetweenLoadAndRemove ==
  /\ ~useDb
  /\ \E i \in DOMAIN dispatched : dispatched[i].rem = "ok"
  /\ \E k \in expected : ~HasKey(tick.schedule, k)

\* ----------------------------------------------------------------- C10
\* C10: delete_deletion_schedule(x) on a Store that does not hold x raises
\* nothing and leaves the mapping as it was (a failure of the database
\* apart); after a completed removal x is absent, so that a second
\* removal changes nothing more.
IdempotentRemove ==
  /\ api.op = "remove" /\ api.res # "raised"
       => /\ api.res \in {"ok", "notready"}
          /\ ~HasKey(api.before, api.key) => StoreContents = api.before
          /\ api.res = "ok" => ~HasKey(StoreContents, api.key)
  /\ \A k \in ApiKeys :
       /\ ~FileRemove(FileRemove(file, k).f, k).err
       /\ FileRemove(FileRemove(file, k).f, k).f = FileRemove(file, k).f
       /\ DbDelete(DbDelete(table, ParseKey(k).mid, ParseKey(k).cid),
                   ParseKey(k).mid, ParseKey(k).cid)
            = DbDelete(table, ParseKey(k).mid, ParseKey(k).cid)

\* delete_deletion_schedule was called for a key a non-empty Store did not
\* hold, and completed.
RemovedAbsentKey ==
  /\ api.op = "remove"
  /\ api.res = "ok"
  /\ api.before # <<>>
  /\ ~HasKey(api.before, api.key)

\* ----------------------------------------------------------------- C11
\* The entries of mapping d under key k.
EntriesFor(d, k) == {i \in DOMAIN d : d[i].key = k}

Overdue(e) == FromIso(e.val).ok /\ IsDue(FromIso(e.val).t, now)

\* C12: when the loop has been started and has not begun its first tick,
\* delete_message has already been called for an entry that was overdue
\* when the process started.
RecoveryBeforeFirstTick ==
  /\ loopTask = "running"
  /\ ~swept
  /\ \E i \in DOMAIN StoreContents : Overdue(StoreContents[i])
  => dispatched # <<>>

\* ----------------------------------------------------------------- C13
\* Task t is inside shutdown_bot.
InShutdown(t) ==
  \E i \in DOMAIN stack[t] : stack[t][i] \in {"sd_stop", "sd_close"}

\* shutdown_bot has been invoked: a task is inside it, or one has been
\* through it (client.close() is called nowhere else).
ShutdownBegun == client = "closed" \/ \E t \in Tasks : InShutdown(t)

\* C13: once shutdown_bot has been invoked, the loop is not started and no
\* tick begins.
NoSweepAfterShutdown ==
  [][ShutdownBegun =>
       /\ ~(loopTask # "running" /\ loopTask' = "running")
       /\ ~(tick.loadRes = "none" /\ tick'.loadRes # "none")]_vars

\* ----------------------------------------------------------------- C14
\* C14: what a tick may dispatch is fixed by the one load made when it
\* began: delete_message is called for keys of that snapshot only, the
\* snapshot does not change while the tick runs, and the snapshot of a tick
\* is the Store as it is when that tick begins, so that an entry put during
\* a tick is considered from the next tick on.
SnapshotFixesTick ==
  /\ [](\A i \in DOMAIN dispatched : HasKey(tick.schedule, dispatched[i].key))
  /\ [][tick.loadRes # "none" /\ tick'.loadRes # "none"
          => tick'.schedule = tick.schedule]_vars
  /\ [][tick.loadRes = "none" /\ tick'.loadRes = "ok"
          => tick'.schedule = StoreContents]_vars

\* A tick that was suspended in delete_message is over, and an entry put
\* meanwhile, with a time at or before the tick's now, was not dispatched.
PutDuringTickNotDispatched ==
  /\ TickComplete
  /\ dispatched # <<>>
  /\ \E i \in DOMAIN StoreContents :
       /\ ~HasKey(tick.schedule, StoreContents[i].key)
       /\ FromIso(StoreContents[i].val).t <= tick.now
       /\ StoreContents[i].key \notin DispatchedKeys

\* ----------------------------------------------------------------- C15
\* C15: delete_message is called by the sweep alone and a tick handles one
\* entry at a time: calls exist only inside a tick, a call in flight is the
\* last one made and the loop is suspended on it, no key is handed over twice
\* in a tick, a tick in progress keeps the loop away from its sleep (so no
\* second tick begins), and only steps of the sweep task make a call.
SweepSoleTrigger ==
  /\ [](/\ dispatched # <<>> => tick.loadRes = "ok"
        /\ tick.loadRes # "none" =>
             stack["sweep"] # <<>> /\ Top("sweep") # "t_sleep"
        /\ \A i \in DOMAIN dispatched :
             /\ dispatched[i].outcome = "pending" =>
                  i = Len(dispatched) /\ stack["sweep"] = <<"x_wait">>
             /\ \A j \in DOMAIN dispatched :
                  dispatched[i].key = dispatched[j].key => i = j)
  /\ [][dispatched' # dispatched =>
          /\ \A t \in Tasks \ {"sweep"} : stack'[t] = stack[t]
          /\ stack["sweep"] # <<>> /\ Top("sweep") \in {"t_iter", "x_wait"}]_vars

\* A tick with two due entries: the call for the first has returned and the
\* call for the second is in flight.
SecondCallInFlight ==
  /\ Len(dispatched) = 2
  /\ dispatched[1].outcome = "success"
  /\ dispatched[2].outcome = "pending"

\* ----------------------------------------------------------------- C16
\* C16: when delete_message ends for a due entry with not-found or
\* forbidden, the loop goes on with the next entry of the same snapshot,
\* nothing is notified, nothing is shut down and the loop is not stopped; a
\* tick in which this happened and which ran through has called
\* delete_message for every due entry of its snapshot.
LocalErrors == {"not_found", "forbidden"}

PerEntryErrorsLocal ==
  /\ [][/\ stack["sweep"] = <<"x_wait">>
        /\ stack'["sweep"] # <<"x_wait">>
        /\ dispatched'[Len(dispatched')].outcome \in LocalErrors
        => /\ stack'["sweep"] = <<"t_iter">>
           /\ tick' = [tick EXCEPT !.idx = @ + 1]
           /\ ~tick'.aborted
           /\ UNCHANGED <<notification_sent, attempts, stopNext, loopTask,
                          client, pool, file, table>>]_vars
  /\ [](/\ TickComplete
        /\ \E i \in DOMAIN dispatched : dispatched[i].outcome \in LocalErrors
        => \A j \in DOMAIN tick.schedule :
             EntryIsDue(tick.schedule[j])
               => tick.schedule[j].key \in DispatchedKeys)

\* The first due entry of a tick ended with not-found or forbidden, the call
\* for the next one has been made, and the loop is running with no stop
\* requested and nothing notified.
LocalErrorThenNextEntry ==
  /\ Len(dispatched) = 2
  /\ dispatched[1].outcome \in LocalErrors
  /\ ~notification_sent
  /\ loopTask = "running" /\ ~stopNext
  /\ client = "open"

\* ----------------------------------------------------------------- C17
\* C17: the two notifications of an escalation are attempted independently:
\* when the send to the public channel raised, the admin channel has still
\* been looked up and, if found, sent to.
BothAudiencesAttempted == attempts.pubRaised => attempts.admReached

\* ----------------------------------------------------------------- C18
\* The event loop runs a coroutine that is not suspended up to its next
\* await, and a send or a close that is awaited returns or raises; the
\* event loop resumes the tasks that are ready in turn.  (The latch lets one
\* task at a time be suspended in a notification, so one condition covers
\* the sends of all tasks.)
Fairness ==
  /\ WF_vars(Next /\ cur # "none")
  /\ SF_vars(\E t \in Tasks : PublicSendDone(t) \/ AdminSendDone(t))
  /\ \A t \in Tasks : SF_vars(ShutdownClientClosed(t))

\* A first start of the process: no schedule has been written yet, and
\* every entry the Store comes to hold is one on_message saved.
InitLive == Init /\ StoreContents = <<>>

SpecLive == InitLive /\ [][Next]_vars /\ Fairness

\* shutdown_bot has been called by task t and has not returned.
ShutdownInvoked(t) ==
  \/ Top(t) \in SdLabels
  \/ t # "main" /\ InShutdown(t)

\* Task t takes the step that starts at label l.
StepFrom(t, l) == Top(t) = l /\ stack'[t] # stack[t]

RepostOnlyIfScheduled ==
  \A h \in Handlers :
    Top(h) = "m_end" /\ m[h].repost # 0
      => HasKey(StoreContents, MkKey(m[h].repost, CHANNEL_ID))

\* ----------------------------------------------------------------- C20
\* C20: an entry leaves the Store only in the step in which delete_message
\* ends after message.delete() returned, and it is the entry of that call:
\* delete_deletion_schedule has been called for no call whose delete did not
\* return, and every entry of a tick's snapshot that is gone from the Store
\* belongs to a call of that tick whose delete returned.
RemovedKeys == Keys(StoreContents) \ Keys(StoreContents')

RemoveOnlyAfterDelete ==
  /\ [](/\ \A i \in DOMAIN dispatched :
             dispatched[i].rem # "none" => dispatched[i].outcome = "success"
        /\ tick.loadRes = "ok" =>
             \A k \in Keys(tick.schedule) \ Keys(StoreContents) :
               \E i \in DOMAIN dispatched :
                 /\ dispatched[i].key = k
                 /\ dispatched[i].outcome = "success"
                 /\ dispatched[i].rem = "ok")
  /\ [][RemovedKeys # {} =>
          /\ StepFrom("sweep", "x_wait")
          /\ dispatched'[Len(dispatched')].outcome = "success"
          /\ RemovedKeys = {dispatched'[Len(dispatched')].key}]_vars

\* In one tick a delete returned and its entry is gone, and another delete
\* raised and its entry is still there.
RemovedAndKept ==
  /\ \E i \in DOMAIN dispatched :
       /\ dispatched[i].outcome = "success"
       /\ dispatched[i].rem = "ok"
       /\ ~HasKey(StoreContents, dispatched[i].key)
  /\ \E j \in DOMAIN dispatched :
       /\ dispatched[j].outcome \in {"not_found", "forbidden", "http_error"}
       /\ dispatched[j].rem = "none"
       /\ HasKey(StoreContents, dispatched[j].key)

\* ----------------------------------------------------------------- C21
\* shutdown_bot was called before task t's call: one has returned (the
\* client is closed for good) or another task is inside one.
PriorShutdown(t) ==
  \/ client = "closed"
  \/ \E u \in Tasks \ {t} : ShutdownInvoked(u)

\* C21: however often shutdown_bot is called, db_pool.close() is called at
\* most once in the process lifetime, and a call that is not the first sends
\* nothing and does not set the stop flag of a loop that is not running.
ShutdownReentrant ==
  /\ [](closeCalls <= 1)
  /\ [][\A t \in Tasks :
          PriorShutdown(t) /\ Top(t) \in SdLabels /\ stack'[t] # stack[t]
            => /\ attempts' = attempts
               /\ loopTask # "running" => stopNext' = stopNext]_vars

====
